---------------------------- MODULE Spec2Model ----------------------------
(***************************************************************************)
(* A model of package httpx (acln.ro/httpx): the path shifter Shift/shift, *)
(* the context registry WithPath/Path/WithRequestID/RequestID and the      *)
(* request-scoped logger RequestLogger.                                    *)
(*                                                                         *)
(* A Go string is modelled as a sequence of one-character strings, so that *)
(* slicing (path[1:], path[:idx], path[idx:]) and strings.IndexByte are    *)
(* computed the way the code computes them.  A *http.Request is an index   *)
(* into the heap reqs; pointer equality of requests is equality of         *)
(* indices.  req.WithContext makes a shallow copy of the request, so every *)
(* request derived from the one the server built points to the same        *)
(* *url.URL: its Path field is the variable urlPath.                       *)
(***************************************************************************)
EXTENDS Integers, Sequences, FiniteSets, TLC

VARIABLES
    reqs,       \* heap of http.Request values: [ctx, UserAgent, Method, RemoteAddr]
    urlPath,    \* the Path field of the url.URL the requests point to
    cur,        \* the handler's variable req: the request the last "with" call returned
    last,       \* the last call made by the handler: operation, arguments and results
    hist,       \* per request: the call that allocated it, its parent, the live path and
                \* the number of Shift calls made by then
    uhist,      \* the path the URL was built with and the Shift calls made on it
    mem,        \* SpecRace: the bytes of memory holding the path string and what follows it
    pathWord,   \* SpecRace: the two machine words (ptr, len) of the field req.URL.Path
    g,          \* SpecRace: per goroutine, its position in Shift and its locals
    path0       \* SpecRace: the path the request was built with

vars == <<reqs, urlPath, cur, last, hist, uhist, mem, pathWord, g, path0>>

seqVars == <<reqs, urlPath, cur, last, hist, uhist>>
raceVars == <<mem, pathWord, g, path0>>

-----------------------------------------------------------------------------
(* Bounds of the model.                                                    *)

MaxLen == 3        \* longest path enumerated over Alphabet
MaxShifts == 4     \* Shift calls on the URL
RaceMaxLen == 3    \* longest path in SpecRace
JunkLen == 2       \* mapped bytes that follow the path's backing array in SpecRace

Alphabet == {"/", "a"}

\* All strings over S of length at most n.
RECURSIVE StringsUpTo(_, _)
StringsUpTo(S, n) ==
    IF n = 0 THEN {<<>>}
    ELSE LET shorter == StringsUpTo(S, n - 1)
         IN shorter \cup {Append(s, c) : s \in {t \in shorter : Len(t) = n - 1}, c \in S}

\* req.URL.Path must either be empty, or have a "/" prefix.
ValidPath(p) == p = <<>> \/ p[1] = "/"

\* The paths of TestShift's table.
TestShiftPaths ==
    { <<>>,
      <<"/">>,
      <<"/", "x", "y", "z">>,
      <<"/", "x", "y", "z", "/">>,
      <<"/", "a", "b", "c", "/", "x", "y", "z">>,
      <<"/", "a", "b", "c", "/", "x", "y", "z", "/">>,
      <<"/", "a", "b", "c", "/", "x", "y", "z", "/", "t">> }

Paths == {p \in StringsUpTo(Alphabet, MaxLen) : ValidPath(p)} \cup TestShiftPaths

\* Identifiers handed to WithRequestID.
IDs == { <<>>, <<"r", "1">>, <<"r", "2">> }

UserAgents == { "", "curl" }
Methods == { "GET" }
RemoteAddrs == { "10.0.0.1:4000" }

-----------------------------------------------------------------------------
(* Go strings.                                                             *)

\* s[lo:hi]
Slice(s, lo, hi) == SubSeq(s, lo + 1, hi)

\* strings.IndexByte(s, c): the index of the first c in s, or -1.
IndexByte(s, c) ==
    IF \E i \in 1..Len(s) : s[i] = c
    THEN (CHOOSE i \in 1..Len(s) : s[i] = c /\ \A j \in 1..(i - 1) : s[j] # c) - 1
    ELSE -1

\* A mutant of shift: the rest drops its leading "/" (path[idx+1:]).
shiftDropsSlash(path) ==
    IF path = <<>> \/ path = <<"/">> THEN [seg |-> <<>>, rest |-> path]
    ELSE LET p1 == Slice(path, 1, Len(path))
             idx == IndexByte(p1, "/")
         IN IF idx # -1
            THEN [seg |-> Slice(p1, 0, idx), rest |-> Slice(p1, idx + 1, Len(p1))]
            ELSE [seg |-> p1, rest |-> <<>>]

\* A mutant of shift: an empty leading segment yields a no-op.
shiftSkipsEmpty(path) ==
    IF path = <<>> \/ path = <<"/">> THEN [seg |-> <<>>, rest |-> path]
    ELSE LET p1 == Slice(path, 1, Len(path))
             idx == IndexByte(p1, "/")
         IN IF idx = 0 THEN [seg |-> <<>>, rest |-> path]
            ELSE IF idx # -1
            THEN [seg |-> Slice(p1, 0, idx), rest |-> Slice(p1, idx, Len(p1))]
            ELSE [seg |-> p1, rest |-> <<>>]

\* A mutant of shift: the leading "/" is not stripped before the search.
shiftNoStrip(path) ==
    IF path = <<>> \/ path = <<"/">> THEN [seg |-> <<>>, rest |-> path]
    ELSE LET idx == IndexByte(path, "/")
         IN IF idx # -1
            THEN [seg |-> Slice(path, 0, idx), rest |-> Slice(path, idx, Len(path))]
            ELSE [seg |-> path, rest |-> <<>>]

\* A mutant of shift: the last "/" is searched (strings.LastIndexByte).
shiftLastSlash(path) ==
    IF path = <<>> \/ path = <<"/">> THEN [seg |-> <<>>, rest |-> path]
    ELSE LET p1 == Slice(path, 1, Len(path))
             at == {i \in 1..Len(p1) : p1[i] = "/"}
             idx == IF at = {} THEN -1 ELSE (CHOOSE i \in at : \A j \in at : j <= i) - 1
         IN IF idx # -1
            THEN [seg |-> Slice(p1, 0, idx), rest |-> Slice(p1, idx, Len(p1))]
            ELSE [seg |-> p1, rest |-> <<>>]

\* func shift(path string) (seg string, rest string)
shift(path) ==
    IF path = <<>> \/ path = <<"/">> THEN [seg |-> <<>>, rest |-> path]
    ELSE LET p1 == Slice(path, 1, Len(path))
             idx == IndexByte(p1, "/")
         IN IF idx # -1
            THEN [seg |-> Slice(p1, 0, idx), rest |-> Slice(p1, idx, Len(p1))]
            ELSE [seg |-> p1, rest |-> <<>>]

-----------------------------------------------------------------------------
(* Contexts.  A context is the chain of its valueCtx nodes, outermost      *)
(* (context.Background) first; an interface value is nil or holds a string.*)

\* type key int
pathKey == 0

\* A mutant of requestIDKey: both keys have the same value.
requestIDKeyCollides == pathKey

requestIDKey == 1

Nil == [nil |-> TRUE, str |-> <<>>]
Iface(s) == [nil |-> FALSE, str |-> s]

\* context.WithValue(ctx, key, val)
WithValue(ctx, key, val) == Append(ctx, [key |-> key, val |-> val])

\* ctx.Value(key): the innermost node with that key decides; Background holds nothing.
RECURSIVE Value(_, _)
Value(ctx, key) ==
    IF ctx = <<>> THEN Nil
    ELSE LET c == ctx[Len(ctx)]
         IN IF c.key = key THEN Iface(c.val)
            ELSE Value(SubSeq(ctx, 1, Len(ctx) - 1), key)

\* req.URL.Path
LivePath(req) == urlPath

-----------------------------------------------------------------------------
(* The registry's functions, as results computed from the heap.            *)

\* A mutant of WithPath: a stored empty path counts as no path (val != "").
WithPathIfEmpty(req) ==
    LET ctx == reqs[req].ctx
    IN IF Value(ctx, pathKey).str # <<>>
       THEN [same |-> TRUE, ctx |-> ctx]
       ELSE [same |-> FALSE, ctx |-> WithValue(ctx, pathKey, LivePath(req))]

\* func WithPath(req *http.Request) *http.Request: whether req itself is
\* returned and, if not, the context of the request returned.
WithPath(req) ==
    LET ctx == reqs[req].ctx
    IN IF Value(ctx, pathKey) # Nil
       THEN [same |-> TRUE, ctx |-> ctx]
       ELSE [same |-> FALSE, ctx |-> WithValue(ctx, pathKey, LivePath(req))]

\* A mutant of Path: the live path is reported.
PathLive(req) ==
    LET val == Value(reqs[req].ctx, pathKey)
    IN IF val = Nil THEN <<>> ELSE LivePath(req)

\* func Path(req *http.Request) string
Path(req) ==
    LET val == Value(reqs[req].ctx, pathKey)
    IN IF val = Nil THEN <<>> ELSE val.str

\* A mutant of WithRequestID: the last writer wins.
WithRequestIDAlways(req, id) ==
    LET ctx == reqs[req].ctx
    IN [same |-> FALSE, ctx |-> WithValue(ctx, requestIDKey, id)]

\* A mutant of WithRequestID: the identifier is stored under pathKey.
WithRequestIDPathSlot(req, id) ==
    LET ctx == reqs[req].ctx
        val == Value(ctx, pathKey)
    IN IF val # Nil
       THEN [same |-> TRUE, ctx |-> ctx]
       ELSE [same |-> FALSE, ctx |-> WithValue(ctx, pathKey, id)]

\* func WithRequestID(req *http.Request, id string) *http.Request
WithRequestID(req, id) ==
    LET ctx == reqs[req].ctx
        val == Value(ctx, requestIDKey)
    IN IF val # Nil
       THEN [same |-> TRUE, ctx |-> ctx]
       ELSE [same |-> FALSE, ctx |-> WithValue(ctx, requestIDKey, id)]

\* func RequestID(req *http.Request) string
RequestID(req) ==
    LET val == Value(reqs[req].ctx, requestIDKey)
    IN IF val = Nil THEN <<>> ELSE val.str

\* The key-value pairs RequestLogger hands to base.WithKV.
RequestLoggerKV(req) ==
    LET kv0 == [k \in {"method", "path", "remote_addr"} |->
                   CASE k = "method" -> reqs[req].Method
                     [] k = "path" -> Path(req)
                     [] k = "remote_addr" -> reqs[req].RemoteAddr]
        ua == reqs[req].UserAgent
        kv1 == IF ua # ""
               THEN [k \in DOMAIN kv0 \cup {"user_agent"} |->
                        IF k = "user_agent" THEN ua ELSE kv0[k]]
               ELSE kv0
        id == RequestID(req)
    IN IF id # <<>>
       THEN [k \in DOMAIN kv1 \cup {"request_id"} |->
                IF k = "request_id" THEN id ELSE kv1[k]]
       ELSE kv1

-----------------------------------------------------------------------------
(* The handler.  The server builds one request; the handler keeps it in    *)
(* its variable req and replaces it by what a "with" call returns (req =   *)
(* httpx.WithPath(req), as TestContext does).  Shift and the getters are   *)
(* called on any request allocated so far: an outer handler still holds    *)
(* the request it passed down.                                             *)

NoKV == [k \in {} |-> ""]

Call(op, req, id, ret, str, kv, before) ==
    [op |-> op, req |-> req, id |-> id, ret |-> ret, str |-> str, kv |-> kv,
     before |-> before, nreqs |-> Len(reqs)]

RaceIdle ==
    /\ mem = <<>>
    /\ pathWord = [ptr |-> 0, len |-> 0]
    /\ g = <<>>
    /\ path0 = <<>>

\* http.NewRequest("", u.String(), nil), as in the tests.
Init ==
    /\ \E p \in Paths, ua \in UserAgents, m \in Methods, ra \in RemoteAddrs :
          /\ reqs = << [ctx |-> <<>>, UserAgent |-> ua, Method |-> m, RemoteAddr |-> ra] >>
          /\ urlPath = p
          /\ cur = 1
          /\ hist = << [op |-> "NewRequest", parent |-> 0, live |-> p, id |-> <<>>,
                        shifts |-> 0] >>
          /\ uhist = [orig |-> p, shifts |-> 0]
    /\ last = [op |-> "NewRequest", req |-> 0, id |-> <<>>, ret |-> 1, str |-> <<>>,
               kv |-> NoKV, before |-> <<>>, nreqs |-> 0]
    /\ RaceIdle

\* func Shift(req *http.Request) string
Shift(req) ==
    LET r == shift(LivePath(req))
    IN /\ uhist.shifts < MaxShifts
       /\ urlPath' = r.rest
       /\ uhist' = [uhist EXCEPT !.shifts = @ + 1]
       /\ last' = Call("Shift", req, <<>>, 0, r.seg, NoKV, LivePath(req))
       /\ UNCHANGED <<reqs, cur, hist, raceVars>>

\* return req: nothing is allocated.
ReturnSame(op, req, id) ==
    /\ last' = Call(op, req, id, req, <<>>, NoKV, LivePath(req))
    /\ UNCHANGED <<reqs, urlPath, cur, hist, uhist, raceVars>>

\* return req.WithContext(ctx): a shallow copy of the request with the new context.
ReturnWithContext(op, req, id, ctx) ==
    /\ cur' = Len(reqs) + 1
    /\ reqs' = Append(reqs, [reqs[req] EXCEPT !.ctx = ctx])
    /\ hist' = Append(hist, [op |-> op, parent |-> req, live |-> LivePath(req), id |-> id,
                             shifts |-> uhist.shifts])
    /\ last' = Call(op, req, id, Len(reqs) + 1, <<>>, NoKV, LivePath(req))
    /\ UNCHANGED <<urlPath, uhist, raceVars>>

WithPathCall(req) ==
    LET r == WithPath(req)
    IN IF r.same THEN ReturnSame("WithPath", req, <<>>)
       ELSE ReturnWithContext("WithPath", req, <<>>, r.ctx)

WithRequestIDCall(req, id) ==
    LET r == WithRequestID(req, id)
    IN IF r.same THEN ReturnSame("WithRequestID", req, id)
       ELSE ReturnWithContext("WithRequestID", req, id, r.ctx)

PathCall(req) ==
    /\ last' = Call("Path", req, <<>>, 0, Path(req), NoKV, LivePath(req))
    /\ UNCHANGED <<reqs, urlPath, cur, hist, uhist, raceVars>>

RequestIDCall(req) ==
    /\ last' = Call("RequestID", req, <<>>, 0, RequestID(req), NoKV, LivePath(req))
    /\ UNCHANGED <<reqs, urlPath, cur, hist, uhist, raceVars>>

\* func RequestLogger(base *log.Logger, req *http.Request) *log.Logger
RequestLoggerCall(req) ==
    /\ last' = Call("RequestLogger", req, <<>>, 0, <<>>, RequestLoggerKV(req), LivePath(req))
    /\ UNCHANGED <<reqs, urlPath, cur, hist, uhist, raceVars>>

Requests == 1..Len(reqs)

Next ==
    \/ \E req \in Requests : Shift(req)
    \/ WithPathCall(cur)
    \/ \E req \in Requests : PathCall(req)
    \/ \E id \in IDs : WithRequestIDCall(cur, id)
    \/ \E req \in Requests : RequestIDCall(req)
    \/ \E req \in Requests : RequestLoggerCall(req)

Spec == Init /\ [][Next]_vars

-----------------------------------------------------------------------------
(* Two goroutines call Shift on the same request.  Shift takes no lock, so *)
(* its read of req.URL.Path (line 36) and its write (line 37) are plain    *)
(* accesses to the two words of a string header, ptr and len, which the    *)
(* goroutines may interleave word by word: a read may see the ptr of one   *)
(* string and the len of another.  Strings are views (ptr, len) into mem,  *)
(* the path's backing array followed by JunkLen bytes of whatever the      *)
(* allocator placed there; a view that reaches past mem, or a nil ptr with *)
(* a non-zero len, faults when its bytes are read.                         *)

Goroutines == {1, 2}
Words == {"ptr", "len"}

\* The ptr of the string literal "".
NilPtr == -1

RacePaths == {p \in StringsUpTo(Alphabet, RaceMaxLen) : ValidPath(p)}
Junk == {j \in StringsUpTo(Alphabet, JunkLen) : Len(j) = JunkLen}

\* The bytes of the string with header h.
Content(h) == IF h.len = 0 THEN <<>> ELSE SubSeq(mem, h.ptr + 1, h.ptr + h.len)

Faults(h) == h.len > 0 /\ (h.ptr = NilPtr \/ h.ptr + h.len > Len(mem))

\* seg, rest := shift(req.URL.Path), on the header loaded: seg by value, rest
\* as the header shift returns (path itself, a suffix of path, or "").
shiftWords(h) ==
    LET path == Content(h)
        r == shift(path)
    IN [seg |-> r.seg,
        rest |-> IF path = <<>> \/ path = <<"/">> THEN h
                 ELSE IF r.rest = <<>> THEN [ptr |-> NilPtr, len |-> 0]
                 ELSE [ptr |-> h.ptr + (Len(path) - Len(r.rest)), len |-> Len(r.rest)]]

SeqIdle ==
    /\ reqs = <<>>
    /\ urlPath = <<>>
    /\ cur = 0
    /\ last = [op |-> "NewRequest", req |-> 0, id |-> <<>>, ret |-> 0, str |-> <<>>,
               kv |-> NoKV, before |-> <<>>, nreqs |-> 0]
    /\ hist = <<>>
    /\ uhist = [orig |-> <<>>, shifts |-> 0]

InitRace ==
    /\ \E p \in RacePaths, j \in Junk :
          /\ mem = p \o j
          /\ path0 = p
          /\ pathWord = [ptr |-> 0, len |-> Len(p)]
    /\ g = [i \in Goroutines |->
              [pc |-> "load", have |-> {}, put |-> {}, h |-> [ptr |-> 0, len |-> 0],
               seg |-> <<>>, rest |-> [ptr |-> 0, len |-> 0],
               late |-> FALSE, after |-> FALSE]]
    /\ SeqIdle

Other(i) == 3 - i

\* Line 36: one word of req.URL.Path is loaded; with both loaded, shift runs.
\* late: this goroutine loaded a word after the other began to store;
\* after: it began only when the other had returned.
Load(i, w) ==
    /\ g[i].pc = "load"
    /\ w \notin g[i].have
    /\ LET have == g[i].have \cup {w}
           h == [g[i].h EXCEPT ![w] = pathWord[w]]
           seen == [g[i] EXCEPT !.have = have, !.h = h,
                                !.late = @ \/ g[Other(i)].put # {},
                                !.after = IF g[i].have = {} THEN g[Other(i)].pc = "done" ELSE @]
       IN g' = [g EXCEPT ![i] =
                   IF have # Words THEN seen
                   ELSE IF Faults(h) THEN [seen EXCEPT !.pc = "fault"]
                   ELSE [seen EXCEPT !.pc = "store", !.seg = shiftWords(h).seg,
                                     !.rest = shiftWords(h).rest]]
    /\ UNCHANGED <<mem, pathWord, path0, seqVars>>

\* Line 37: one word of rest is stored into req.URL.Path; with both stored,
\* Shift returns seg.
Store(i, w) ==
    /\ g[i].pc = "store"
    /\ w \notin g[i].put
    /\ pathWord' = [pathWord EXCEPT ![w] = g[i].rest[w]]
    /\ g' = [g EXCEPT ![i].put = @ \cup {w},
                      ![i].pc = IF g[i].put \cup {w} = Words THEN "done" ELSE "store"]
    /\ UNCHANGED <<mem, path0, seqVars>>

NextRace ==
    \/ \E i \in Goroutines, w \in Words : Load(i, w)
    \/ \E i \in Goroutines, w \in Words : Store(i, w)

SpecRace == InitRace /\ [][NextRace]_vars

-----------------------------------------------------------------------------
(* What the claims are stated with.                                        *)

Empty == <<>>
Slash == <<"/">>
Str(t) == [i \in 1..Len(t) |-> t[i]]

\* The first "/" of r, as a position 1..Len(r).
FirstSlash(r) == CHOOSE i \in 1..Len(r) : r[i] = "/" /\ \A j \in 1..(i - 1) : r[j] # "/"

\* The segment and the rest the contract of Shift gives for the path p.
ExpectedSeg(p) ==
    IF p = Empty \/ p = Slash THEN Empty
    ELSE LET r == Tail(p)
         IN IF \E i \in 1..Len(r) : r[i] = "/"
            THEN SubSeq(r, 1, FirstSlash(r) - 1)
            ELSE r

ExpectedRest(p) ==
    IF p = Empty \/ p = Slash THEN p
    ELSE LET r == Tail(p)
         IN IF \E i \in 1..Len(r) : r[i] = "/"
            THEN SubSeq(r, FirstSlash(r), Len(r))
            ELSE Empty

\* The rows of TestShift's table.
TestShiftTable ==
    { [path |-> Empty, seg |-> Empty, rest |-> Empty],
      [path |-> Slash, seg |-> Empty, rest |-> Slash],
      [path |-> <<"/", "x", "y", "z">>, seg |-> <<"x", "y", "z">>, rest |-> Empty],
      [path |-> <<"/", "x", "y", "z", "/">>, seg |-> <<"x", "y", "z">>, rest |-> Slash],
      [path |-> <<"/", "a", "b", "c", "/", "x", "y", "z">>,
       seg |-> <<"a", "b", "c">>, rest |-> <<"/", "x", "y", "z">>],
      [path |-> <<"/", "a", "b", "c", "/", "x", "y", "z", "/">>,
       seg |-> <<"a", "b", "c">>, rest |-> <<"/", "x", "y", "z", "/">>],
      [path |-> <<"/", "a", "b", "c", "/", "x", "y", "z", "/", "t">>,
       seg |-> <<"a", "b", "c">>, rest |-> <<"/", "x", "y", "z", "/", "t">>] }

\* The requests r was derived from, r included.
RECURSIVE Lineage(_)
Lineage(r) == IF r = 0 THEN {} ELSE {r} \cup Lineage(hist[r].parent)

\* The requests on r's lineage that the call op allocated.
SetBy(op, r) == {a \in Lineage(r) : hist[a].op = op}

Min(S) == CHOOSE x \in S : \A y \in S : x <= y

-----------------------------------------------------------------------------
\* C1: Shift on a request whose live path is p returns ExpectedSeg(p) and
\* leaves the live path equal to ExpectedRest(p); the seven rows of
\* TestShift's table give exactly the listed segment and rest.
C1_ShiftContract ==
    last.op = "Shift" =>
        /\ ValidPath(last.before)
        /\ last.str = ExpectedSeg(last.before)
        /\ urlPath = ExpectedRest(last.before)
        /\ \A row \in TestShiftTable :
              last.before = row.path => last.str = row.seg /\ urlPath = row.rest

C1_Witness ==
    /\ last.op = "Shift"
    /\ last.before = <<"/", "a", "b", "c", "/", "x", "y", "z", "/", "t">>
    /\ last.str = <<"a", "b", "c">>
    /\ urlPath = <<"/", "x", "y", "z", "/", "t">>

\* C2, as claimed: after Shift on a valid path p, a non-empty segment gives
\* "/" + seg + rest = p and an empty segment gives rest = p.
C2_Original ==
    last.op = "Shift" =>
        /\ last.str # Empty => Slash \o last.str \o urlPath = last.before
        /\ last.str = Empty => urlPath = last.before

\* C2, amended: after Shift on a valid path p, if p is "" or "/" then seg is
\* "" and rest = p; otherwise "/" + seg + rest = p, also when seg is "" (p
\* begins with "//" and loses its first "/").
C2_Reassembly ==
    last.op = "Shift" =>
        /\ last.before \in {Empty, Slash} => last.str = Empty /\ urlPath = last.before
        /\ last.before \notin {Empty, Slash} => Slash \o last.str \o urlPath = last.before
        /\ last.str = Empty /\ urlPath # last.before =>
              Len(last.before) >= 2 /\ last.before[1] = "/" /\ last.before[2] = "/"

C2_Witness ==
    /\ last.op = "Shift"
    /\ last.before = <<"/", "/", "a">>
    /\ last.str = Empty
    /\ urlPath = <<"/", "a">>

\* C3: a "with" call on a request whose lineage already holds a request
\* allocated by the same "with" function returns the very request it was
\* given and allocates nothing, whatever value was stored first.
C3_Idempotent ==
    last.op \in {"WithPath", "WithRequestID"} /\ SetBy(last.op, last.req) # {} =>
        /\ last.ret = last.req
        /\ Len(reqs) = last.nreqs
        /\ cur = last.req

\* WithPath on a request that stores the empty path, after a Shift.
C3_Witness ==
    /\ last.op = "WithPath"
    /\ SetBy("WithPath", last.req) # {}
    /\ \A a \in SetBy("WithPath", last.req) : hist[a].live = Empty
    /\ uhist.shifts > 0
    /\ last.ret = last.req

\* C4: on the request the first WithPath returned, and on every request
\* derived from it, Path reports the live path of the moment of that call;
\* it is the path the request was built with when no Shift came before.
C4_OriginalPath ==
    /\ \A r \in 1..Len(reqs) : \A a \in SetBy("WithPath", r) :
          /\ Path(r) = hist[a].live
          /\ hist[a].shifts = 0 => Path(r) = uhist.orig
    /\ last.op = "Path" =>
          \A a \in SetBy("WithPath", last.req) : last.str = hist[a].live

C4_Witness ==
    /\ last.op = "Path"
    /\ Len(reqs) = 3
    /\ hist[2].op = "WithPath"
    /\ last.req = 2
    /\ last.str = <<"/", "a", "b", "c", "/", "x", "y", "z">>
    /\ urlPath = Empty

\* C5: after a WithRequestID call, RequestID of the request returned is the
\* identifier of the first WithRequestID call on its lineage.
C5_FirstWriteWins ==
    /\ \A r \in 1..Len(reqs) :
          SetBy("WithRequestID", r) # {} =>
              RequestID(r) = hist[Min(SetBy("WithRequestID", r))].id
    /\ last.op = "WithRequestID" =>
          /\ SetBy("WithRequestID", last.ret) # {}
          /\ SetBy("WithRequestID", last.req) # {} => RequestID(last.ret) = RequestID(last.req)

C5_Witness ==
    /\ last.op = "WithRequestID"
    /\ last.id = <<"r", "2">>
    /\ SetBy("WithRequestID", last.req) # {}
    /\ RequestID(last.ret) = <<"r", "1">>

\* C6: Path is "" on a request with no WithPath on its lineage, RequestID is
\* "" on a request with no WithRequestID on its lineage, and both getters
\* always return a string.
C6_Defaults ==
    /\ \A r \in 1..Len(reqs) :
          /\ SetBy("WithPath", r) = {} => Path(r) = Empty
          /\ SetBy("WithRequestID", r) = {} => RequestID(r) = Empty
          /\ Path(r) = Str(Path(r))
          /\ RequestID(r) = Str(RequestID(r))
    /\ last.op = "Path" /\ SetBy("WithPath", last.req) = {} => last.str = Empty
    /\ last.op = "RequestID" /\ SetBy("WithRequestID", last.req) = {} => last.str = Empty

\* Path on a request that has an identifier but no stored path, after a Shift.
C6_Witness ==
    /\ last.op = "Path"
    /\ SetBy("WithPath", last.req) = {}
    /\ RequestID(last.req) = <<"r", "1">>
    /\ uhist.shifts > 0
    /\ urlPath # Empty
    /\ last.str = Empty

\* C7: in every step, a request already allocated keeps both slots; a new
\* request is allocated only by a "with" call on a request lacking that
\* call's key, holds the key afterwards and has the other slot as its parent
\* has it; Shift, Path, RequestID and RequestLogger allocate nothing.
C7_Step ==
    /\ Len(reqs') >= Len(reqs)
    /\ \A r \in 1..Len(reqs) : \A k \in {pathKey, requestIDKey} :
          Value(reqs'[r].ctx, k) = Value(reqs[r].ctx, k)
    /\ \A n \in (Len(reqs) + 1)..Len(reqs') :
          LET q == hist'[n].parent
              own == IF last'.op = "WithPath" THEN pathKey ELSE requestIDKey
              other == IF last'.op = "WithPath" THEN requestIDKey ELSE pathKey
          IN /\ last'.op \in {"WithPath", "WithRequestID"}
             /\ hist'[n].op = last'.op
             /\ q = last'.req
             /\ Value(reqs[q].ctx, own) = Nil
             /\ Value(reqs'[n].ctx, own) # Nil
             /\ Value(reqs'[n].ctx, other) = Value(reqs[q].ctx, other)
    /\ last'.op \in {"Shift", "Path", "RequestID", "RequestLogger"} =>
          reqs' = reqs /\ cur' = cur
    /\ \A k \in {pathKey, requestIDKey} :
          Value(reqs[cur].ctx, k) # Nil =>
              Value(reqs'[cur'].ctx, k) = Value(reqs[cur].ctx, k)

C7_KeyStateMachine == [][C7_Step]_vars

\* Both keys present, the identifier set first, then the path.
C7_Witness ==
    /\ Len(reqs) = 3
    /\ hist[2].op = "WithRequestID"
    /\ hist[3].op = "WithPath"
    /\ Value(reqs[3].ctx, requestIDKey) = Iface(<<"r", "1">>)
    /\ Value(reqs[3].ctx, pathKey) = Iface(<<"/", "a">>)
    /\ Value(reqs[2].ctx, pathKey) = Nil
    /\ last.op = "Shift"

\* C8, as claimed: the logger's request_id is present, with the stored
\* identifier, exactly when WithRequestID was called on the request's
\* lineage, and its path is the registry's path.
C8_RequestLoggerID ==
    last.op = "RequestLogger" =>
        LET set == SetBy("WithRequestID", last.req)
        IN /\ set # {} => /\ "request_id" \in DOMAIN last.kv
                          /\ last.kv["request_id"] = hist[Min(set)].id
           /\ set = {} => "request_id" \notin DOMAIN last.kv
           /\ last.kv["path"] = Path(last.req)

\* C9 (SpecRace): when both calls have returned, (a) if neither goroutine
\* loaded a word of the path after the other began to store, both return the
\* first segment of path0 and the live path is path0 less one segment, which
\* is what two calls in sequence give only for the paths "", "/" and "//";
\* (b) if one call began after the other returned, the calls return the
\* first and the second segment and the live path is path0 less two.
BothDone == \A i \in Goroutines : g[i].pc = "done"

Overlapped == \A i \in Goroutines : ~g[i].late

\* What two Shift calls in sequence give: the segments and the live path.
InSequence(p) ==
    <<ExpectedSeg(p), ExpectedSeg(ExpectedRest(p)), ExpectedRest(ExpectedRest(p))>>

C9_RacingShift ==
    BothDone =>
        /\ Overlapped =>
              /\ g[1].seg = ExpectedSeg(path0)
              /\ g[2].seg = ExpectedSeg(path0)
              /\ Content(pathWord) = ExpectedRest(path0)
              /\ (<<g[1].seg, g[2].seg, Content(pathWord)>> = InSequence(path0))
                    <=> path0 \in {Empty, Slash, <<"/", "/">>}
        /\ \A i \in Goroutines :
              g[i].after =>
                  <<g[Other(i)].seg, g[i].seg, Content(pathWord)>> = InSequence(path0)

\* Both calls return "a" for the path "/a/" and the live path is "/", not "".
C9_Witness ==
    /\ BothDone
    /\ Overlapped
    /\ path0 = <<"/", "a", "/">>
    /\ g[1].seg = <<"a">>
    /\ g[2].seg = <<"a">>
    /\ Content(pathWord) = Slash
    /\ <<g[1].seg, g[2].seg, Content(pathWord)>> # InSequence(path0)

\* C10: a Shift on a live path other than "" and "/" leaves a shorter, valid
\* live path; a Shift on "" or "/" returns "" and changes nothing; after as
\* many Shift calls as the path it was built with is long, the live path is
\* "" or "/".
C10_FixedPoint ==
    /\ ValidPath(urlPath)
    /\ last.op = "Shift" /\ last.before \notin {Empty, Slash} =>
          Len(urlPath) < Len(last.before)
    /\ last.op = "Shift" /\ last.before \in {Empty, Slash} =>
          last.str = Empty /\ urlPath = last.before
    /\ uhist.shifts >= Len(uhist.orig) => urlPath \in {Empty, Slash}

\* "/abc/xyz/t" yields "abc", "xyz", "t" and then "".
C10_Witness ==
    /\ uhist.orig = <<"/", "a", "b", "c", "/", "x", "y", "z", "/", "t">>
    /\ uhist.shifts = 4
    /\ last.op = "Shift"
    /\ last.before = Empty
    /\ last.str = Empty
    /\ urlPath = Empty

=============================================================================
